---- MODULE Spec2Model ----
(***************************************************************************)
(* Heap growth primitive of the picolibc hooks: _sbrk() in                 *)
(* lib/libc/picolibc/libc-hooks.c.  Several threads call _sbrk(count)      *)
(* concurrently; the calls are serialised by the semaphore heap_sem.       *)
(*                                                                         *)
(* heap_sz is an `unsigned int`, count an `intptr_t`; the sum              *)
(* heap_sz + count is computed in unsigned arithmetic (ILP32: both         *)
(* operands convert to unsigned; LP64 with a size_t / uintptr_t            *)
(* MAX_HEAP_SIZE: the comparison converts the sum to unsigned).  The       *)
(* model keeps that arithmetic at a reduced width: values of `unsigned     *)
(* int` are 0..UINT_MAX and wrap modulo UINT_MAX + 1.                      *)
(***************************************************************************)
EXTENDS Integers, Sequences, FiniteSets

\* ---- bounds of the model ----
UINT_MAX == 15                  \* largest `unsigned int` (reduced width)
MaxHeap == 4                    \* largest MAX_HEAP_SIZE explored
MaxDelta == 2                   \* small requests are -MaxDelta..MaxDelta
NumThreads == 2                 \* calling contexts
MaxCalls == 3                   \* _sbrk calls issued in one behaviour

\* ---- program constants ----
HEAP_BASE == 32                 \* address of the first heap byte
HEAP_SEM_INIT == 1              \* SYS_SEM_DEFINE(heap_sem, 1, 1): initial count
HEAP_SEM_LIMIT == 1             \* SYS_SEM_DEFINE(heap_sem, 1, 1): limit
SBRK_FAIL == -1                 \* (void *)-1

Word == UINT_MAX + 1
INT_MAX == (Word \div 2) - 1
INT_MIN == -(Word \div 2)

Threads == 1..NumThreads

Min(a, b) == IF a < b THEN a ELSE b

\* capacities the initialisation can produce: MAX_HEAP_SIZE comes from
\* int-valued configuration, so it never exceeds INT_MAX
Capacities == 0..Min(MaxHeap, INT_MAX)

\* counts the callers pass: small ones and the two extremes of intptr_t
Counts == ((-MaxDelta)..MaxDelta) \cup {INT_MIN, INT_MAX}
GrowCounts == {c \in Counts : c >= 0}
BranchCounts == {-1, 1, INT_MAX}

VARIABLES
    heap_sz,        \* static unsigned int heap_sz
    max_heap_size,  \* MAX_HEAP_SIZE, fixed by malloc_prepare / the linker
    heap_sem,       \* count of heap_sem
    pc,             \* pc[t]: position of thread t inside _sbrk
    count,          \* count[t]: argument of the call in progress
    ptr,            \* ptr[t]: local ptr
    ret,            \* ret[t]: local ret
    holder,         \* threads between sys_sem_take and sys_sem_give
    ticket,         \* ticket[t]: rank of the call's semaphore acquisition
    before,         \* before[t]: heap_sz when the semaphore was acquired
    nacq,           \* acquisitions of heap_sem so far
    ncalls,         \* calls issued so far
    log             \* outcomes of the released calls, in order of release

vars == <<heap_sz, max_heap_size, heap_sem, pc, count, ptr, ret,
          holder, ticket, before, nacq, ncalls, log>>

locals == <<count, ptr, ret>>
ghost == <<holder, ticket, before, nacq>>

\* ---- arithmetic of the C types ----

\* conversion of an intptr_t to unsigned
ToUnsigned(c) == c % Word

\* heap_sz + count in unsigned arithmetic
UAdd(sz, c) == (sz + ToUnsigned(c)) % Word

Fits_signed(sz, c, max) == sz + c < max

Fits_le(sz, c, max) == UAdd(sz, c) <= max

\* the condition (heap_sz + count) < MAX_HEAP_SIZE
Fits(sz, c, max) == UAdd(sz, c) < max

\* ---- the semaphore primitive (sys_sem) ----

\* sys_sem_take can proceed when the count is positive, and decrements it
SemCanTake(s) == s > 0

SemTaken(s) == s - 1

\* sys_sem_give increments the count unless it is at the limit
SemGiven(s) == IF s < HEAP_SEM_LIMIT THEN s + 1 ELSE s

\* ---- initial state ----
Init ==
    /\ heap_sz = 0
    /\ max_heap_size \in Capacities
    /\ heap_sem = HEAP_SEM_INIT
    /\ pc = [t \in Threads |-> "idle"]
    /\ count = [t \in Threads |-> 0]
    /\ ptr = [t \in Threads |-> 0]
    /\ ret = [t \in Threads |-> 0]
    /\ holder = {}
    /\ ticket = [t \in Threads |-> 0]
    /\ before = [t \in Threads |-> 0]
    /\ nacq = 0
    /\ ncalls = 0
    /\ log = <<>>

\* ---- _sbrk, one action per statement ----

\* thread t enters _sbrk(c)
sbrk_enter(t, c) ==
    /\ pc[t] = "idle"
    /\ ncalls < MaxCalls
    /\ ncalls' = ncalls + 1
    /\ pc' = [pc EXCEPT ![t] = "take"]
    /\ count' = [count EXCEPT ![t] = c]
    /\ UNCHANGED <<heap_sz, max_heap_size, heap_sem, ptr, ret, ghost, log>>

\* a call with any count the interface accepts
sbrk_call(t) == \E c \in Counts : sbrk_enter(t, c)

\* a call of the grow-only usage pattern
sbrk_call_grow(t) == \E c \in GrowCounts : sbrk_enter(t, c)

\* a call that shrinks by one byte, grows by one byte, or cannot fit: the
\* count decides only which branch of the comparison the call takes
sbrk_call_branch(t) == \E c \in BranchCounts : sbrk_enter(t, c)

\* a grow-only call issued while no other call is in progress
sbrk_call_serial(t) ==
    /\ \A u \in Threads : pc[u] = "idle"
    /\ \E c \in GrowCounts : sbrk_enter(t, c)

sbrk_take_nowait(t) ==
    /\ pc[t] = "take"
    /\ heap_sem' = IF SemCanTake(heap_sem) THEN SemTaken(heap_sem) ELSE heap_sem
    /\ pc' = [pc EXCEPT ![t] = "ptr"]
    /\ holder' = holder \cup {t}
    /\ nacq' = nacq + 1
    /\ ticket' = [ticket EXCEPT ![t] = nacq + 1]
    /\ before' = [before EXCEPT ![t] = heap_sz]
    /\ UNCHANGED <<heap_sz, max_heap_size, locals, ncalls, log>>

\* sys_sem_take(&heap_sem, K_FOREVER): blocks until the count is positive
sbrk_take(t) ==
    /\ pc[t] = "take"
    /\ SemCanTake(heap_sem)
    /\ heap_sem' = SemTaken(heap_sem)
    /\ pc' = [pc EXCEPT ![t] = "ptr"]
    /\ holder' = holder \cup {t}
    /\ nacq' = nacq + 1
    /\ ticket' = [ticket EXCEPT ![t] = nacq + 1]
    /\ before' = [before EXCEPT ![t] = heap_sz]
    /\ UNCHANGED <<heap_sz, max_heap_size, locals, ncalls, log>>

\* ptr = ((char *)HEAP_BASE) + heap_sz
sbrk_ptr(t) ==
    /\ pc[t] = "ptr"
    /\ ptr' = [ptr EXCEPT ![t] = HEAP_BASE + heap_sz]
    /\ pc' = [pc EXCEPT ![t] = "cmp"]
    /\ UNCHANGED <<heap_sz, max_heap_size, heap_sem, count, ret, ghost,
                   ncalls, log>>

\* if ((heap_sz + count) < MAX_HEAP_SIZE)
sbrk_cmp(t) ==
    /\ pc[t] = "cmp"
    /\ pc' = [pc EXCEPT ![t] =
                IF Fits(heap_sz, count[t], max_heap_size)
                THEN "add" ELSE "fail"]
    /\ UNCHANGED <<heap_sz, max_heap_size, heap_sem, locals, ghost,
                   ncalls, log>>

sbrk_add_assign(t) ==
    /\ pc[t] = "add"
    /\ heap_sz' = ToUnsigned(count[t])
    /\ ret' = [ret EXCEPT ![t] = ptr[t]]
    /\ pc' = [pc EXCEPT ![t] = "give"]
    /\ UNCHANGED <<max_heap_size, heap_sem, count, ptr, ghost, ncalls, log>>

sbrk_add_newptr(t) ==
    /\ pc[t] = "add"
    /\ heap_sz' = UAdd(heap_sz, count[t])
    /\ ret' = [ret EXCEPT ![t] = HEAP_BASE + UAdd(heap_sz, count[t])]
    /\ pc' = [pc EXCEPT ![t] = "give"]
    /\ UNCHANGED <<max_heap_size, heap_sem, count, ptr, ghost, ncalls, log>>

\* heap_sz += count; ret = ptr;
sbrk_add(t) ==
    /\ pc[t] = "add"
    /\ heap_sz' = UAdd(heap_sz, count[t])
    /\ ret' = [ret EXCEPT ![t] = ptr[t]]
    /\ pc' = [pc EXCEPT ![t] = "give"]
    /\ UNCHANGED <<max_heap_size, heap_sem, count, ptr, ghost, ncalls, log>>

sbrk_fail_add(t) ==
    /\ pc[t] = "fail"
    /\ heap_sz' = UAdd(heap_sz, count[t])
    /\ ret' = [ret EXCEPT ![t] = SBRK_FAIL]
    /\ pc' = [pc EXCEPT ![t] = "give"]
    /\ UNCHANGED <<max_heap_size, heap_sem, count, ptr, ghost, ncalls, log>>

\* ret = (void *)-1;
sbrk_fail(t) ==
    /\ pc[t] = "fail"
    /\ ret' = [ret EXCEPT ![t] = SBRK_FAIL]
    /\ pc' = [pc EXCEPT ![t] = "give"]
    /\ UNCHANGED <<heap_sz, max_heap_size, heap_sem, count, ptr, ghost,
                   ncalls, log>>

sbrk_give_on_success(t) ==
    /\ pc[t] = "give"
    /\ heap_sem' = IF ret[t] = SBRK_FAIL THEN heap_sem ELSE SemGiven(heap_sem)
    /\ holder' = IF ret[t] = SBRK_FAIL THEN holder ELSE holder \ {t}
    /\ log' = Append(log, [count |-> count[t], ret |-> ret[t],
                           ticket |-> ticket[t], before |-> before[t],
                           after |-> heap_sz])
    /\ pc' = [pc EXCEPT ![t] = "ret"]
    /\ count' = [count EXCEPT ![t] = 0]
    /\ ptr' = [ptr EXCEPT ![t] = 0]
    /\ ticket' = [ticket EXCEPT ![t] = 0]
    /\ before' = [before EXCEPT ![t] = 0]
    /\ UNCHANGED <<heap_sz, max_heap_size, ret, nacq, ncalls>>

\* sys_sem_give(&heap_sem); the outcome of the call is logged, and count and
\* ptr, which the function does not read again, are cleared
sbrk_give(t) ==
    /\ pc[t] = "give"
    /\ heap_sem' = SemGiven(heap_sem)
    /\ holder' = holder \ {t}
    /\ log' = Append(log, [count |-> count[t], ret |-> ret[t],
                           ticket |-> ticket[t], before |-> before[t],
                           after |-> heap_sz])
    /\ pc' = [pc EXCEPT ![t] = "ret"]
    /\ count' = [count EXCEPT ![t] = 0]
    /\ ptr' = [ptr EXCEPT ![t] = 0]
    /\ ticket' = [ticket EXCEPT ![t] = 0]
    /\ before' = [before EXCEPT ![t] = 0]
    /\ UNCHANGED <<heap_sz, max_heap_size, ret, nacq, ncalls>>

\* return ret;
sbrk_return(t) ==
    /\ pc[t] = "ret"
    /\ pc' = [pc EXCEPT ![t] = "idle"]
    /\ ret' = [ret EXCEPT ![t] = 0]
    /\ UNCHANGED <<heap_sz, max_heap_size, heap_sem, count, ptr, ghost,
                   ncalls, log>>

\* the statements of _sbrk after the entry
sbrk_step(t) ==
    \/ sbrk_take(t)
    \/ sbrk_ptr(t)
    \/ sbrk_cmp(t)
    \/ sbrk_add(t)
    \/ sbrk_fail(t)
    \/ sbrk_give(t)
    \/ sbrk_return(t)

\* ---- specifications ----

\* any signed count, concurrent callers
Next == \E t \in Threads : sbrk_call(t) \/ sbrk_step(t)
Spec == Init /\ [][Next]_vars

\* grow-only usage, concurrent callers
NextGrow == \E t \in Threads : sbrk_call_grow(t) \/ sbrk_step(t)
SpecGrow == Init /\ [][NextGrow]_vars

\* grow-only usage, one call at a time
NextSerial == \E t \in Threads : sbrk_call_serial(t) \/ sbrk_step(t)
SpecSerial == Init /\ [][NextSerial]_vars

\* a thread inside _sbrk keeps running; a thread blocked in sys_sem_take
\* sits in the semaphore's wait queue and is handed the semaphore by a give
Fairness ==
    \A t \in Threads :
        /\ SF_vars(sbrk_take(t))
        /\ WF_vars(sbrk_ptr(t) \/ sbrk_cmp(t) \/ sbrk_add(t) \/ sbrk_fail(t)
                   \/ sbrk_give(t) \/ sbrk_return(t))
NextBranch == \E t \in Threads : sbrk_call_branch(t) \/ sbrk_step(t)
FairSpec == Init /\ [][NextBranch]_vars /\ Fairness

\* ---- observations on the log of returned calls ----

CS == {"ptr", "cmp", "add", "fail", "give"}

Ok(e) == e.ret # SBRK_FAIL

\* the ranges [e.ret, e.ret + e.count) and [f.ret, f.ret + f.count) of two
\* successful calls with non-negative counts share no byte
Disjoint(e, f) ==
    \/ e.count = 0
    \/ f.count = 0
    \/ e.ret + e.count <= f.ret
    \/ f.ret + f.count <= e.ret

RECURSIVE SumOk(_)
\* bytes handed out by the successful calls of a log
SumOk(l) ==
    IF l = <<>> THEN 0
    ELSE (IF Ok(Head(l)) THEN Head(l).count ELSE 0) + SumOk(Tail(l))

\* what _sbrk(0) returns when the mark is sz
Probe(sz) == IF Fits(sz, 0, max_heap_size) THEN HEAP_BASE + sz ELSE SBRK_FAIL

AllIdle == \A t \in Threads : pc[t] = "idle"

\* ---- C1 ----
\* C1: at most one call at a time is between sys_sem_take and sys_sem_give,
\* every thread at a statement that reads or writes heap_sz is that one
\* holder, and heap_sz changes only in a step of the holder.
C1_MutualExclusion ==
    /\ [](/\ Cardinality(holder) <= 1
          /\ \A t \in Threads : pc[t] \in CS => holder = {t})
    /\ [][heap_sz' # heap_sz =>
            \E t \in Threads : /\ holder = {t}
                               /\ pc[t] = "add"
                               /\ pc'[t] = "give"]_vars

\* one thread is about to write heap_sz while another waits for heap_sem
C1_Witness ==
    \E t, u \in Threads :
        /\ t # u
        /\ pc[t] = "add"
        /\ count[t] > 0
        /\ pc[u] = "take"
        /\ heap_sem = 0

\* ---- C2 ----
\* C2: when every call has a positive count, the ranges returned by the
\* successful calls are pairwise disjoint, and once all calls have returned
\* successfully heap_sz is the sum of their counts.
C2_ConcurrentDisjoint ==
    (\A i \in DOMAIN log : log[i].count > 0) =>
        /\ \A i, j \in DOMAIN log :
              (i < j /\ Ok(log[i]) /\ Ok(log[j])) =>
                  \/ log[i].ret + log[i].count <= log[j].ret
                  \/ log[j].ret + log[j].count <= log[i].ret
        /\ (AllIdle /\ \A i \in DOMAIN log : Ok(log[i])) =>
              heap_sz = SumOk(log)

\* two calls with counts 1 and 2 on a fresh region were in progress at the
\* same time in distinct threads: both are released, neither has returned
C2_Witness ==
    /\ Len(log) = 2
    /\ {log[1].count, log[2].count} = {1, 2}
    /\ Ok(log[1]) /\ Ok(log[2])
    /\ heap_sz = 3
    /\ \E t, u \in Threads :
          /\ t # u
          /\ pc[t] = "ret" /\ ret[t] = log[1].ret
          /\ pc[u] = "ret" /\ ret[u] = log[2].ret

C4_StrictlyIncreasing ==
    \A i, j \in DOMAIN log :
        (i < j /\ Ok(log[i]) /\ Ok(log[j])) => log[i].ret < log[j].ret

\* C4 amended: the pointers of successful serial calls with non-negative
\* counts are non-decreasing, and strictly increasing after a call with a
\* positive count; the ranges are pairwise disjoint and lie inside
\* [HEAP_BASE, HEAP_BASE + MAX_HEAP_SIZE).
C4_SerialPartition ==
    /\ \A i, j \in DOMAIN log :
          (i < j /\ Ok(log[i]) /\ Ok(log[j])) =>
              /\ log[i].ret <= log[j].ret
              /\ log[i].count > 0 => log[i].ret < log[j].ret
              /\ log[i].ret + log[i].count <= log[j].ret
              /\ Disjoint(log[i], log[j])
    /\ \A i \in DOMAIN log :
          Ok(log[i]) =>
              /\ HEAP_BASE <= log[i].ret
              /\ log[i].ret + log[i].count <= HEAP_BASE + max_heap_size

\* three serial successes, one of them with count 0
C4_Witness ==
    /\ Len(log) = 3
    /\ \A i \in DOMAIN log : Ok(log[i])
    /\ log[1].count > 0
    /\ log[2].count = 0
    /\ log[3].count > 0

C6_FailureLeavesMark ==
    /\ \A i \in DOMAIN log :
          /\ ~Fits(log[i].before, log[i].count, max_heap_size) =>
                log[i].ret = SBRK_FAIL
          /\ log[i].ret = SBRK_FAIL =>
                /\ log[i].after = log[i].before
                /\ Probe(log[i].after) = Probe(log[i].before)
    /\ \A t \in Threads :
          (pc[t] = "give" /\ ret[t] = SBRK_FAIL) => heap_sz = before[t]

\* a call failed at a positive mark and the _sbrk(0) that acquired the
\* semaphore next returned the address of that mark
C6_Witness ==
    \E i, j \in DOMAIN log :
        /\ ~Ok(log[i])
        /\ log[i].count > 0
        /\ log[i].before > 0
        /\ log[j].ticket = log[i].ticket + 1
        /\ log[j].count = 0
        /\ log[j].ret = HEAP_BASE + log[i].before

\* ---- C7 ----
\* C7: heap_sem is never held while no call is inside the guarded region,
\* and under fair scheduling every call that was entered returns.
C7_ReleasedAndReturns ==
    /\ [](heap_sem = 0 => \E t \in Threads : pc[t] \in CS)
    /\ \A t \in Threads : (pc[t] # "idle") ~> (pc[t] = "idle")

\* a call failed, and a call another thread issued while the first had not
\* returned acquired the semaphore after it and succeeded
C7_Witness ==
    /\ Len(log) = 2
    /\ ~Ok(log[1]) /\ Ok(log[2])
    /\ log[1].ticket < log[2].ticket
    /\ heap_sem = 1
    /\ \E t, u \in Threads :
          /\ t # u
          /\ pc[t] = "ret" /\ ret[t] = SBRK_FAIL
          /\ pc[u] = "ret" /\ ret[u] = log[2].ret

\* ---- C8 ----
\* C8 as stated: no step decreases heap_sz.
C8_NeverDecreases == [][heap_sz' >= heap_sz]_vars

\* C8 amended: heap_sz never decreases in a call whose count is
\* non-negative; only the update of a call with a negative count lowers it.
C8_GrowNeverDecreases ==
    [][heap_sz' < heap_sz =>
          \E t \in Threads : /\ pc[t] = "add"
                             /\ pc'[t] = "give"
                             /\ count[t] < 0]_vars

\* a grow has raised the mark and a later grow raised it again
C8_Witness ==
    \E i, j \in DOMAIN log :
        /\ log[i].ticket < log[j].ticket
        /\ log[i].count > 0 /\ Ok(log[i]) /\ log[i].after > log[i].before
        /\ log[j].count > 0 /\ Ok(log[j]) /\ log[j].after > log[j].before

\* ---- C9 ----
\* C9 as stated: of two successful calls with non-negative counts, the one
\* that acquired heap_sem first ends at or below the pointer of the other.
C9_AcquisitionOrder ==
    \A i, j \in DOMAIN log :
        (/\ Ok(log[i]) /\ Ok(log[j])
         /\ log[i].count >= 0 /\ log[j].count >= 0
         /\ log[i].ticket < log[j].ticket) =>
            log[i].ret + log[i].count <= log[j].ret

\* the call with acquisition rank k has returned without shrinking the heap
NoShrinkAt(k) ==
    \E m \in DOMAIN log :
        /\ log[m].ticket = k
        /\ log[m].count >= 0 \/ ~Ok(log[m])

\* C9 amended: the same, provided no call that acquired heap_sem between
\* the two succeeded with a negative count.
C9_AcquisitionOrderNoShrink ==
    \A i, j \in DOMAIN log :
        (/\ Ok(log[i]) /\ Ok(log[j])
         /\ log[i].count >= 0 /\ log[j].count >= 0
         /\ log[i].ticket < log[j].ticket
         /\ \A k \in (log[i].ticket + 1)..(log[j].ticket - 1) : NoShrinkAt(k)) =>
            log[i].ret + log[i].count <= log[j].ret

\* two successful grows with a failed shrink acquired between them; the
\* grow that acquired last has returned, the one that acquired first has not
C9_Witness ==
    \E i, j, m \in DOMAIN log :
        /\ log[i].ticket < log[m].ticket
        /\ log[m].ticket < log[j].ticket
        /\ log[m].count < 0 /\ ~Ok(log[m])
        /\ Ok(log[i]) /\ Ok(log[j])
        /\ log[i].count > 0 /\ log[j].count > 0
        /\ \E t, u \in Threads :
              /\ t # u
              /\ pc[t] = "ret" /\ ret[t] = log[i].ret
              /\ pc[u] = "idle"

\* ---- C10 ----
\* C10: under grow-only use with MAX_HEAP_SIZE > 0, heap_sz stays strictly
\* below MAX_HEAP_SIZE, at most MAX_HEAP_SIZE - 1 bytes are handed out, and
\* no returned range contains the last byte of the region.
C10_LastByteUnused ==
    max_heap_size > 0 =>
        /\ heap_sz < max_heap_size
        /\ SumOk(log) <= max_heap_size - 1
        /\ \A i \in DOMAIN log :
              Ok(log[i]) =>
                  log[i].ret + log[i].count <= HEAP_BASE + max_heap_size - 1

\* the mark sits one below the capacity and a request for the last byte
\* has failed
C10_Witness ==
    /\ max_heap_size > 0
    /\ heap_sz = max_heap_size - 1
    /\ \E i \in DOMAIN log :
          /\ log[i].count = 1
          /\ log[i].before = max_heap_size - 1
          /\ ~Ok(log[i])

====
